---- MODULE Spec2Model ----
(***************************************************************************)
(* Reservation and session admission of the parking backend                *)
(* (src/routers/reservations.py, src/routers/sessions.py), over the tables *)
(* of src/models.py.                                                       *)
(*                                                                         *)
(* Time is an integer count of 30-minute units.  A handler is a verdict    *)
(* (the HTTP status and detail its guards select, a function of the tables *)
(* and the request) and an effect on the tables.  In Spec, SpecPolicy and  *)
(* SpecEvents a handler is one atomic action (requests executed one at a   *)
(* time); SpecConc splits create_reservation at its commits.               *)
(***************************************************************************)
EXTENDS Integers, Sequences, FiniteSets, TLC

\* ------------------------------------------------------------------ bounds
\* Instants range over 0..MaxTime.
MaxTime == 2
\* Rows the reservations table may hold.
MaxRes == 2
\* Rows the parking_sessions table may hold.
MaxSessions == 2
\* Rows the reports table may hold.
MaxReports == 1

\* ------------------------------------------------------- program constants
\* NULL of a nullable column (ParkingSession.check_out_time, Events.start_time).
Null == -1
\* Reservation.event_id IS NULL / ReservationCreate.event_id = None.
NoEvent == "none"
\* `timedelta(minutes=30)` of the event window rule, in 30-minute units.
EVENT_WINDOW == 1

Times == 0..MaxTime
Roles == {"student", "staff", "admin", "visitor", "vip"}
ZoneTypes == {"staff", "student", "visitor", "general"}
UserIds == {"u1", "u2", "u3"}
SpotIds == {"s1", "s2"}
EventIds == {"e1"}
SpotTypes == {"reserved", "regular", "disabled"}
ReportTypes == {"unauthorized_parking", "wrong_zone_entry"}
SpotStatuses == {"reserved", "occupied", "empty", "under_maintenance"}
Plates == {"p1", "p2", "p3", "px"}

VARIABLES
    users,          \* users table: id -> [role, license_plate]
    zones,          \* parking_zones table: id -> [zone_type]
    spots,          \* parking_spots table: id -> [parking_zone_id, is_vip, spot_type, lot_name, status]
    events,         \* events table: id -> [start_time, allowed_parking_lots]
    reservations,   \* reservations table, a row's id is its index
    sessions,       \* parking_sessions table, a row's id is its index
    reports,        \* reports table
    now,            \* the wall clock read by datetime.now / datetime.utcnow
    inflight        \* SpecConc: per worker, the request it is serving and where it stands

vars == <<users, zones, spots, events, reservations, sessions, reports, now, inflight>>

Workers == {"w1", "w2"}
Idle == [pc |-> "idle"]

\* ------------------------------------------------------------ HTTP details
D_CREATED == "created"
D_USER_OR_SPOT == "User or Spot not found"
D_ZONE_MISSING == "Parking zone for spot not found"
D_ZONE_FORBIDDEN == "User with role is not allowed to park in zones."
D_START_PAST == "Reservation start time cannot be in the past."
D_END_BEFORE_START == "Reservation end time must be after start time."
D_VIP == "Not authorized for VIP spot"
D_OVERLAP == "Spot already reserved in that period"
D_SPOT_SESSION == "Spot is currently occupied by an active parking session."

Verdict(status, detail) == [status |-> status, detail |-> detail]

\* ------------------------------------------------------------- queries
ResIds == DOMAIN reservations
SesIds == DOMAIN sessions

\* ParkingSession rows of the spot with check_out_time IS NULL.
OpenSessionsOfSpot(s) ==
    {i \in SesIds : sessions[i].spot_id = s /\ sessions[i].check_out_time = Null}

\* ParkingSession rows of the user with check_out_time IS NULL.
OpenSessionsOfUser(u) ==
    {i \in SesIds : sessions[i].user_id = u /\ sessions[i].check_out_time = Null}

\* -------------------------------------------------- create_reservation
\* Mutant of ZoneForbidden: the exemption of "general" zones is lost.
ZoneForbidden_no_general(role, zone_type) ==
    /\ role \in {"staff", "student", "visitor"}
    /\ zone_type # role

\* `if user.role in ["staff","student","visitor"] and zone_type != user.role:
\*      if zone_type != "general": raise 403`
ZoneForbidden(role, zone_type) ==
    /\ role \in {"staff", "student", "visitor"}
    /\ zone_type # role
    /\ zone_type # "general"

\* `if event and event.start_time:` the event branch is taken.
EventBranch(ev) ==
    /\ ev # NoEvent
    /\ ev \in DOMAIN events
    /\ events[ev].start_time # Null

\* Mutant of GeneralTimeVerdict: `<=` for `<` in the start test.
GeneralTimeVerdict_le(st, en) ==
    IF st <= now THEN Verdict(400, D_START_PAST)
    ELSE IF en <= st THEN Verdict(400, D_END_BEFORE_START)
    ELSE Verdict(0, "")

\* The `else:` branch of the event test: the general time checks, in order.
GeneralTimeVerdict(st, en) ==
    IF st < now THEN Verdict(400, D_START_PAST)
    ELSE IF en <= st THEN Verdict(400, D_END_BEFORE_START)
    ELSE Verdict(0, "")

\* The event branch only normalises time zones: the lot check is commented
\* out and the 30-minute window check was removed.
EventVerdict(ev, s, st) == Verdict(0, "")

\* Mutant of VipForbidden: admins pass as they pass the zone check.
VipForbidden_admin_bypass(is_vip, role) == is_vip /\ role \notin {"vip", "admin"}

\* `if spot.is_vip and user.role != "vip": raise 403`
VipForbidden(is_vip, role) == is_vip /\ role # "vip"

\* Mutant of OverlapRows: pending rows are not looked at.
OverlapRows_active_only(s, st, en) ==
    {i \in ResIds :
        /\ reservations[i].spot_id = s
        /\ reservations[i].status = "active"
        /\ st < reservations[i].end_time
        /\ en > reservations[i].start_time}

\* Mutant of OverlapRows: closed intervals, `<=` and `>=`.
OverlapRows_closed(s, st, en) ==
    {i \in ResIds :
        /\ reservations[i].spot_id = s
        /\ reservations[i].status \in {"active", "pending"}
        /\ st <= reservations[i].end_time
        /\ en >= reservations[i].start_time}

\* The overlap query: rows of the spot, active or pending, with
\* res.start_time < row.end_time and res.end_time > row.start_time.
OverlapRows(s, st, en) ==
    {i \in ResIds :
        /\ reservations[i].spot_id = s
        /\ reservations[i].status \in {"active", "pending"}
        /\ st < reservations[i].end_time
        /\ en > reservations[i].start_time}

\* Mutant of create_reservation_verdict: the overlap query is run before the
\* zone policy.
create_reservation_verdict_overlap_first(u, s, ev, st, en) ==
    IF u \notin DOMAIN users \/ s \notin DOMAIN spots
    THEN Verdict(404, D_USER_OR_SPOT)
    ELSE IF spots[s].parking_zone_id \notin DOMAIN zones
    THEN Verdict(404, D_ZONE_MISSING)
    ELSE IF OverlapRows(s, st, en) # {}
    THEN Verdict(400, D_OVERLAP)
    ELSE IF ZoneForbidden(users[u].role, zones[spots[s].parking_zone_id].zone_type)
    THEN Verdict(403, D_ZONE_FORBIDDEN)
    ELSE IF ~EventBranch(ev) /\ GeneralTimeVerdict(st, en).status # 0
    THEN GeneralTimeVerdict(st, en)
    ELSE IF VipForbidden(spots[s].is_vip, users[u].role)
    THEN Verdict(403, D_VIP)
    ELSE IF OpenSessionsOfSpot(s) # {}
    THEN Verdict(400, D_SPOT_SESSION)
    ELSE Verdict(201, D_CREATED)

\* The checks of create_reservation up to the insert, in source order.
create_reservation_verdict(u, s, ev, st, en) ==
    IF u \notin DOMAIN users \/ s \notin DOMAIN spots
    THEN Verdict(404, D_USER_OR_SPOT)
    ELSE IF spots[s].parking_zone_id \notin DOMAIN zones
    THEN Verdict(404, D_ZONE_MISSING)
    ELSE IF ZoneForbidden(users[u].role, zones[spots[s].parking_zone_id].zone_type)
    THEN Verdict(403, D_ZONE_FORBIDDEN)
    ELSE IF EventBranch(ev) /\ EventVerdict(ev, s, st).status # 0
    THEN EventVerdict(ev, s, st)
    ELSE IF ~EventBranch(ev) /\ GeneralTimeVerdict(st, en).status # 0
    THEN GeneralTimeVerdict(st, en)
    ELSE IF VipForbidden(spots[s].is_vip, users[u].role)
    THEN Verdict(403, D_VIP)
    ELSE IF OverlapRows(s, st, en) # {}
    THEN Verdict(400, D_OVERLAP)
    ELSE IF OpenSessionsOfSpot(s) # {}
    THEN Verdict(400, D_SPOT_SESSION)
    ELSE Verdict(201, D_CREATED)

\* Mutant of NewReservation: the row is born active.
NewReservation_active(u, s, ev, st, en) ==
    [user_id |-> u, spot_id |-> s, event_id |-> ev,
     start_time |-> st, end_time |-> en, status |-> "active"]

\* `Reservation(**res.model_dump(), status="pending")`
NewReservation(u, s, ev, st, en) ==
    [user_id |-> u, spot_id |-> s, event_id |-> ev,
     start_time |-> st, end_time |-> en, status |-> "pending"]

\* Mutant of create_reservation: the spot is marked occupied before the
\* guards are evaluated, so a rejected request leaves the mark behind.
create_reservation_marks_first(u, s, ev, st, en) ==
    LET v == create_reservation_verdict(u, s, ev, st, en) IN
    /\ IF v.status = 201
       THEN /\ Len(reservations) < MaxRes
            /\ reservations' = Append(reservations, NewReservation(u, s, ev, st, en))
       ELSE UNCHANGED reservations
    /\ spots' = IF s \in DOMAIN spots
                THEN [spots EXCEPT ![s].status = "occupied"]
                ELSE spots
    /\ UNCHANGED <<users, zones, events, sessions, reports, now, inflight>>

\* POST /reservations/reserve-spot, the whole handler.
create_reservation(u, s, ev, st, en) ==
    LET v == create_reservation_verdict(u, s, ev, st, en) IN
    /\ IF v.status = 201
       THEN /\ Len(reservations) < MaxRes
            /\ reservations' = Append(reservations, NewReservation(u, s, ev, st, en))
            /\ spots' = [spots EXCEPT ![s].status = "occupied"]
       ELSE UNCHANGED <<reservations, spots>>
    /\ UNCHANGED <<users, zones, events, sessions, reports, now, inflight>>

\* -------------------------------------------------- cancel_reservation
D_CANCELLED == "Reservation cancelled successfully."
D_RES_MISSING == "Reservation not found."
D_USER_MISSING == "User not found."
D_NOT_OWNER == "Not authorized to cancel this reservation."
D_ALREADY_CANCELLED == "Reservation is already cancelled."
D_ALREADY_STARTED == "Cannot cancel an active reservation that has already started."

\* Mutant of cancel_reservation_verdict: the guard on an already cancelled
\* reservation is missing.
cancel_reservation_verdict_no_cancelled_guard(rid, u) ==
    IF rid \notin ResIds THEN Verdict(404, D_RES_MISSING)
    ELSE IF u \notin DOMAIN users THEN Verdict(404, D_USER_MISSING)
    ELSE IF reservations[rid].user_id # u /\ users[u].role # "admin"
    THEN Verdict(403, D_NOT_OWNER)
    ELSE IF reservations[rid].status = "active" /\ reservations[rid].start_time < now
    THEN Verdict(400, D_ALREADY_STARTED)
    ELSE Verdict(200, D_CANCELLED)

\* Mutant of cancel_reservation_verdict: the reservation's status is
\* tested before the requester's right to cancel.
cancel_reservation_verdict_status_first(rid, u) ==
    IF rid \notin ResIds THEN Verdict(404, D_RES_MISSING)
    ELSE IF u \notin DOMAIN users THEN Verdict(404, D_USER_MISSING)
    ELSE IF reservations[rid].status = "cancelled"
    THEN Verdict(400, D_ALREADY_CANCELLED)
    ELSE IF reservations[rid].status = "active" /\ reservations[rid].start_time < now
    THEN Verdict(400, D_ALREADY_STARTED)
    ELSE IF reservations[rid].user_id # u /\ users[u].role # "admin"
    THEN Verdict(403, D_NOT_OWNER)
    ELSE Verdict(200, D_CANCELLED)

\* Mutant of cancel_reservation_verdict: `<=` for `<` in the start test.
cancel_reservation_verdict_started_le(rid, u) ==
    IF rid \notin ResIds THEN Verdict(404, D_RES_MISSING)
    ELSE IF u \notin DOMAIN users THEN Verdict(404, D_USER_MISSING)
    ELSE IF reservations[rid].user_id # u /\ users[u].role # "admin"
    THEN Verdict(403, D_NOT_OWNER)
    ELSE IF reservations[rid].status = "cancelled"
    THEN Verdict(400, D_ALREADY_CANCELLED)
    ELSE IF reservations[rid].status = "active" /\ reservations[rid].start_time <= now
    THEN Verdict(400, D_ALREADY_STARTED)
    ELSE Verdict(200, D_CANCELLED)

\* The guards of cancel_reservation, in source order.
cancel_reservation_verdict(rid, u) ==
    IF rid \notin ResIds THEN Verdict(404, D_RES_MISSING)
    ELSE IF u \notin DOMAIN users THEN Verdict(404, D_USER_MISSING)
    ELSE IF reservations[rid].user_id # u /\ users[u].role # "admin"
    THEN Verdict(403, D_NOT_OWNER)
    ELSE IF reservations[rid].status = "cancelled"
    THEN Verdict(400, D_ALREADY_CANCELLED)
    ELSE IF reservations[rid].status = "active" /\ reservations[rid].start_time < now
    THEN Verdict(400, D_ALREADY_STARTED)
    ELSE Verdict(200, D_CANCELLED)

\* Mutant of OtherActiveOccupancies: pending reservations are not counted.
OtherActiveOccupancies_active_only(rid, s) ==
    \/ \E i \in ResIds :
          /\ reservations[i].spot_id = s
          /\ reservations[i].status = "active"
          /\ i # rid
          /\ reservations[i].end_time > now
    \/ OpenSessionsOfSpot(s) # {}

\* Mutant of OtherActiveOccupancies: the `end_time > utcnow()` filter is lost.
OtherActiveOccupancies_no_end_test(rid, s) ==
    \/ \E i \in ResIds :
          /\ reservations[i].spot_id = s
          /\ reservations[i].status \in {"active", "pending"}
          /\ i # rid
    \/ OpenSessionsOfSpot(s) # {}

\* `other_active_occupancies`: another active or pending reservation of the
\* spot that ends after now, or an open session of the spot.
OtherActiveOccupancies(rid, s) ==
    \/ \E i \in ResIds :
          /\ reservations[i].spot_id = s
          /\ reservations[i].status \in {"active", "pending"}
          /\ i # rid
          /\ reservations[i].end_time > now
    \/ OpenSessionsOfSpot(s) # {}

\* Mutant of StatusAfterCancel: the test `spot.status == "occupied"` is
\* missing.
StatusAfterCancel_any_status(rid, s) ==
    IF ~OtherActiveOccupancies(rid, s) THEN "empty" ELSE spots[s].status

\* The spot's status after a successful cancel of reservation rid.
StatusAfterCancel(rid, s) ==
    IF spots[s].status = "occupied" /\ ~OtherActiveOccupancies(rid, s)
    THEN "empty"
    ELSE spots[s].status

\* POST /reservations/cancel, the whole handler.
cancel_reservation(rid, u) ==
    LET v == cancel_reservation_verdict(rid, u) IN
    /\ IF v.status = 200
       THEN LET s == reservations[rid].spot_id IN
            /\ reservations' = [reservations EXCEPT ![rid].status = "cancelled"]
            /\ spots' = IF s \in DOMAIN spots
                        THEN [spots EXCEPT ![s].status = StatusAfterCancel(rid, s)]
                        ELSE spots
       ELSE UNCHANGED <<reservations, spots>>
    /\ UNCHANGED <<users, zones, events, sessions, reports, now, inflight>>

\* ------------------------------------------------------------- check_in
D_CHECKED_IN == "checked in"
D_PLATE == "License plate not recognized. Report generated."
D_SPOT_MISSING == "Parking spot not found."
D_ZONE_MISSING_CI == "Parking zone not found for this spot."
D_WRONG_ZONE == "You are not authorized to park in this zone. Report generated."
D_RESERVED_SPOT == "This is a reserved spot and you do not have an active reservation."
D_USER_SESSION == "User already has an active parking session."
D_SPOT_OCCUPIED == "Spot is already occupied by another session."
D_SPOT_NOT_EMPTY == "Spot is not available for check-in."
D_INTERNAL == "Internal Server Error"

\* sessions.py binds the name `datetime` to the module (`import datetime`),
\* so every `datetime.utcnow()` in that file raises AttributeError and the
\* request ends as an unhandled 500.
sessions_utcnow_raises == TRUE

\* `db.query(User).filter(User.license_plate == license_plate).first()`
UsersByPlate(lp) == {u \in DOMAIN users : users[u].license_plate = lp}

\* The `active_reservation` query of check_user_and_zone_rules.
ActiveReservationRows(u, s) ==
    {i \in ResIds :
        /\ reservations[i].user_id = u
        /\ reservations[i].spot_id = s
        /\ reservations[i].start_time <= now
        /\ reservations[i].end_time >= now
        /\ reservations[i].status = "active"}

NoReport == [report_type |-> "none", license_plate |-> "", spot_id |-> ""]
RuleVerdict(status, detail, report) ==
    [status |-> status, detail |-> detail, report |-> report]

\* Mutant of check_user_and_zone_rules: the missing spot is reported as
\* NotFound before the plate is looked at.
check_user_and_zone_rules_spot_first(lp, s) ==
    IF s \notin DOMAIN spots THEN RuleVerdict(404, D_SPOT_MISSING, NoReport)
    ELSE IF UsersByPlate(lp) = {}
    THEN RuleVerdict(403, D_PLATE,
             [report_type |-> "unauthorized_parking", license_plate |-> lp, spot_id |-> s])
    ELSE LET u == CHOOSE x \in UsersByPlate(lp) : TRUE IN
    IF spots[s].parking_zone_id \notin DOMAIN zones
    THEN RuleVerdict(404, D_ZONE_MISSING_CI, NoReport)
    ELSE IF ZoneForbidden(users[u].role, zones[spots[s].parking_zone_id].zone_type)
    THEN RuleVerdict(403, D_WRONG_ZONE,
             [report_type |-> "wrong_zone_entry", license_plate |-> lp, spot_id |-> s])
    ELSE IF sessions_utcnow_raises THEN RuleVerdict(500, D_INTERNAL, NoReport)
    ELSE IF /\ ActiveReservationRows(u, s) = {}
            /\ spots[s].spot_type = "reserved"
            /\ users[u].role # "admin"
    THEN RuleVerdict(403, D_RESERVED_SPOT, NoReport)
    ELSE RuleVerdict(0, "", NoReport)

\* check_user_and_zone_rules: the verdict and the Report row it commits.
check_user_and_zone_rules(lp, s) ==
    IF UsersByPlate(lp) = {}
    THEN RuleVerdict(403, D_PLATE,
             [report_type |-> "unauthorized_parking", license_plate |-> lp, spot_id |-> s])
    ELSE LET u == CHOOSE x \in UsersByPlate(lp) : TRUE IN
    IF s \notin DOMAIN spots THEN RuleVerdict(404, D_SPOT_MISSING, NoReport)
    ELSE IF spots[s].parking_zone_id \notin DOMAIN zones
    THEN RuleVerdict(404, D_ZONE_MISSING_CI, NoReport)
    ELSE IF ZoneForbidden(users[u].role, zones[spots[s].parking_zone_id].zone_type)
    THEN RuleVerdict(403, D_WRONG_ZONE,
             [report_type |-> "wrong_zone_entry", license_plate |-> lp, spot_id |-> s])
    ELSE IF sessions_utcnow_raises THEN RuleVerdict(500, D_INTERNAL, NoReport)
    ELSE IF /\ ActiveReservationRows(u, s) = {}
            /\ spots[s].spot_type = "reserved"
            /\ users[u].role # "admin"
    THEN RuleVerdict(403, D_RESERVED_SPOT, NoReport)
    ELSE RuleVerdict(0, "", NoReport)

\* Mutant of check_in_verdict: `datetime` names the class, so utcnow()
\* works, and the guard on the user's open session is missing.
check_in_verdict_no_user_guard(lp, s) ==
    IF UsersByPlate(lp) = {}
    THEN RuleVerdict(403, D_PLATE,
             [report_type |-> "unauthorized_parking", license_plate |-> lp, spot_id |-> s])
    ELSE LET u == CHOOSE x \in UsersByPlate(lp) : TRUE IN
    IF s \notin DOMAIN spots THEN RuleVerdict(404, D_SPOT_MISSING, NoReport)
    ELSE IF spots[s].parking_zone_id \notin DOMAIN zones
    THEN RuleVerdict(404, D_ZONE_MISSING_CI, NoReport)
    ELSE IF ZoneForbidden(users[u].role, zones[spots[s].parking_zone_id].zone_type)
    THEN RuleVerdict(403, D_WRONG_ZONE,
             [report_type |-> "wrong_zone_entry", license_plate |-> lp, spot_id |-> s])
    ELSE IF /\ ActiveReservationRows(u, s) = {}
            /\ spots[s].spot_type = "reserved"
            /\ users[u].role # "admin"
    THEN RuleVerdict(403, D_RESERVED_SPOT, NoReport)
    ELSE IF OpenSessionsOfSpot(s) # {} THEN RuleVerdict(400, D_SPOT_OCCUPIED, NoReport)
    ELSE IF spots[s].status # "empty" THEN RuleVerdict(400, D_SPOT_NOT_EMPTY, NoReport)
    ELSE RuleVerdict(200, D_CHECKED_IN, NoReport)

\* Mutant of check_in_verdict: `datetime` names the class, so utcnow()
\* works, and the guard on the spot's status is missing.
check_in_verdict_no_status_guard(lp, s) ==
    IF UsersByPlate(lp) = {}
    THEN RuleVerdict(403, D_PLATE,
             [report_type |-> "unauthorized_parking", license_plate |-> lp, spot_id |-> s])
    ELSE LET u == CHOOSE x \in UsersByPlate(lp) : TRUE IN
    IF s \notin DOMAIN spots THEN RuleVerdict(404, D_SPOT_MISSING, NoReport)
    ELSE IF spots[s].parking_zone_id \notin DOMAIN zones
    THEN RuleVerdict(404, D_ZONE_MISSING_CI, NoReport)
    ELSE IF ZoneForbidden(users[u].role, zones[spots[s].parking_zone_id].zone_type)
    THEN RuleVerdict(403, D_WRONG_ZONE,
             [report_type |-> "wrong_zone_entry", license_plate |-> lp, spot_id |-> s])
    ELSE IF /\ ActiveReservationRows(u, s) = {}
            /\ spots[s].spot_type = "reserved"
            /\ users[u].role # "admin"
    THEN RuleVerdict(403, D_RESERVED_SPOT, NoReport)
    ELSE IF OpenSessionsOfUser(u) # {} THEN RuleVerdict(400, D_USER_SESSION, NoReport)
    ELSE IF OpenSessionsOfSpot(s) # {} THEN RuleVerdict(400, D_SPOT_OCCUPIED, NoReport)
    ELSE RuleVerdict(200, D_CHECKED_IN, NoReport)

\* check_in after check_user_and_zone_rules returned: the session guards.
check_in_verdict(lp, s) ==
    LET r == check_user_and_zone_rules(lp, s) IN
    IF r.status # 0 THEN r
    ELSE LET u == CHOOSE x \in UsersByPlate(lp) : TRUE IN
    IF OpenSessionsOfUser(u) # {} THEN RuleVerdict(400, D_USER_SESSION, NoReport)
    ELSE IF OpenSessionsOfSpot(s) # {} THEN RuleVerdict(400, D_SPOT_OCCUPIED, NoReport)
    ELSE IF spots[s].status # "empty" THEN RuleVerdict(400, D_SPOT_NOT_EMPTY, NoReport)
    ELSE IF sessions_utcnow_raises THEN RuleVerdict(500, D_INTERNAL, NoReport)
    ELSE RuleVerdict(200, D_CHECKED_IN, NoReport)

\* POST /sessions/check-in, the whole handler.
check_in(lp, s) ==
    LET v == check_in_verdict(lp, s) IN
    /\ IF v.report # NoReport
       THEN /\ Len(reports) < MaxReports
            /\ reports' = Append(reports, v.report)
       ELSE UNCHANGED reports
    /\ IF v.status = 200
       THEN /\ Len(sessions) < MaxSessions
            /\ sessions' = Append(sessions,
                   [user_id |-> CHOOSE x \in UsersByPlate(lp) : TRUE, spot_id |-> s,
                    check_in_time |-> now, check_out_time |-> Null])
            /\ spots' = [spots EXCEPT ![s].status = "occupied"]
       ELSE UNCHANGED <<sessions, spots>>
    /\ UNCHANGED <<users, zones, events, reservations, now, inflight>>

\* ------------------------------------------------------------ check_out
D_CHECKED_OUT == "Checked out successfully."
D_SESSION_MISSING == "Active session not found or already checked out."

\* The `overlapping_reservation` query of check_out.
CoveringActiveRows(s) ==
    {i \in ResIds :
        /\ reservations[i].spot_id = s
        /\ reservations[i].status = "active"
        /\ reservations[i].start_time <= now
        /\ reservations[i].end_time > now}

check_out_verdict(sid) ==
    IF sid \notin SesIds \/ sessions[sid].check_out_time # Null
    THEN Verdict(404, D_SESSION_MISSING)
    ELSE IF sessions_utcnow_raises THEN Verdict(500, D_INTERNAL)
    ELSE Verdict(200, D_CHECKED_OUT)

\* POST /sessions/check-out, the whole handler.
check_out(sid) ==
    LET v == check_out_verdict(sid) IN
    /\ IF v.status = 200
       THEN LET s == sessions[sid].spot_id IN
            /\ sessions' = [sessions EXCEPT ![sid].check_out_time = now]
            /\ spots' = IF s \in DOMAIN spots
                        THEN [spots EXCEPT ![s].status =
                                 IF CoveringActiveRows(s) # {} THEN "reserved" ELSE "empty"]
                        ELSE spots
       ELSE UNCHANGED <<sessions, spots>>
    /\ UNCHANGED <<users, zones, events, reservations, reports, now, inflight>>

\* ---------------------------------------------------------------- spots
\* PUT /spots/{spot_id} with a body that sets `status` only: every field of
\* the body is written to the row as it is.
update_parking_spot(s, status) ==
    /\ IF s \in DOMAIN spots
       THEN spots' = [spots EXCEPT ![s].status = status]
       ELSE UNCHANGED spots
    /\ UNCHANGED <<users, zones, events, reservations, sessions, reports, now, inflight>>

\* `occupied_by_sessions`: spots of sessions with check_out_time IS NULL.
occupied_by_sessions == {sessions[i].spot_id : i \in {j \in SesIds : sessions[j].check_out_time = Null}}

\* `reserved_now`: spots of reservations with start_time <= now,
\* end_time > now and status = "active".
reserved_now ==
    {reservations[i].spot_id : i \in {j \in ResIds :
        /\ reservations[j].start_time <= now
        /\ reservations[j].end_time > now
        /\ reservations[j].status = "active"}}

\* `unavailable_by_status`: spots marked occupied or under_maintenance.
unavailable_by_status ==
    {s \in DOMAIN spots : spots[s].status \in {"occupied", "under_maintenance"}}

\* GET /spots/available-spots: the spots in none of the three subqueries.
get_available_spots ==
    {s \in DOMAIN spots :
        /\ s \notin occupied_by_sessions
        /\ s \notin reserved_now
        /\ s \notin unavailable_by_status}

\* ------------------------------------------------------------ scheduler
\* The external job that promotes reservations: pending -> active.  Its
\* period is not fixed, so it may promote a pending reservation at any time.
scheduler_promote(rid) ==
    /\ rid \in ResIds
    /\ reservations[rid].status = "pending"
    /\ reservations' = [reservations EXCEPT ![rid].status = "active"]
    /\ UNCHANGED <<users, zones, spots, events, sessions, reports, now, inflight>>

\* The external job, active -> completed, once the window has ended.
scheduler_complete(rid) ==
    /\ rid \in ResIds
    /\ reservations[rid].status = "active"
    /\ reservations[rid].end_time <= now
    /\ reservations' = [reservations EXCEPT ![rid].status = "completed"]
    /\ UNCHANGED <<users, zones, spots, events, sessions, reports, now, inflight>>

\* ------------------------------------------------------------------ clock
Tick ==
    /\ now < MaxTime
    /\ now' = now + 1
    /\ UNCHANGED <<users, zones, spots, events, reservations, sessions, reports, inflight>>

\* ------------------------------------------------------------------- init
Spot(zone, vip, type, lot) ==
    [parking_zone_id |-> zone, is_vip |-> vip, spot_type |-> type,
     lot_name |-> lot, status |-> "empty"]

\* The tables before any request: spots are created with status "empty"
\* (create_parking_spot), no reservation, session or report exists.
EmptyTables ==
    /\ reservations = <<>>
    /\ sessions = <<>>
    /\ reports = <<>>
    /\ now = 0
    /\ inflight = [w \in Workers |-> Idle]

\* A campus with a staff user, an admin and a student; a regular spot in a
\* staff zone and a VIP spot of type reserved in a general zone; no event.
CampusUsers ==
    [u \in UserIds |->
        CASE u = "u1" -> [role |-> "staff", license_plate |-> "p1"]
          [] u = "u2" -> [role |-> "admin", license_plate |-> "p2"]
          [] OTHER -> [role |-> "student", license_plate |-> "p3"]]

CampusZones ==
    [z \in {"z1", "z2"} |->
        IF z = "z1" THEN [zone_type |-> "staff"] ELSE [zone_type |-> "general"]]

CampusSpots ==
    [s \in SpotIds |->
        IF s = "s1" THEN Spot("z1", FALSE, "regular", "LotA")
        ELSE Spot("z2", TRUE, "reserved", "LotB")]

Campus ==
    /\ users = CampusUsers
    /\ zones = CampusZones
    /\ spots = CampusSpots

NoEvents == [e \in {} |-> [start_time |-> Null, allowed_parking_lots |-> {}]]

Init ==
    /\ Campus
    /\ events = NoEvents
    /\ EmptyTables

\* Requests name any user, any spot, any reservation or session id, and an
\* event of the events table or none; vehicles checking in are registered.
CreateRequest ==
    \E u \in UserIds, s \in SpotIds, ev \in DOMAIN events \cup {NoEvent},
       st \in Times, en \in Times : create_reservation(u, s, ev, st, en)

CancelRequest == \E rid \in 1..MaxRes, u \in UserIds : cancel_reservation(rid, u)

CheckInRequest == \E u \in DOMAIN users, s \in SpotIds : check_in(users[u].license_plate, s)

CheckOutRequest == \E sid \in 1..MaxSessions : check_out(sid)

Next ==
    \/ CreateRequest
    \/ CancelRequest
    \/ CheckInRequest
    \/ CheckOutRequest
    \/ Tick

Spec == Init /\ [][Next]_vars

\* ------------------------------------------------------------- SpecPolicy
\* One user of any role and one spot of any zone type, VIP flag and spot
\* type; requests may name users and spots that do not exist, and vehicles
\* may be unregistered.
InitPolicy ==
    /\ \E r \in Roles :
          users = [u \in {"u1"} |-> [role |-> r, license_plate |-> "p1"]]
    /\ \E zt \in ZoneTypes : zones = [z \in {"z1"} |-> [zone_type |-> zt]]
    /\ \E vip \in BOOLEAN, type \in SpotTypes :
          spots = [s \in {"s1"} |-> Spot("z1", vip, type, "LotA")]
    /\ events = NoEvents
    /\ EmptyTables

AnyCheckInRequest == \E lp \in Plates, s \in SpotIds : check_in(lp, s)

NextPolicy ==
    \/ CreateRequest
    \/ AnyCheckInRequest

SpecPolicy == InitPolicy /\ [][NextPolicy]_vars

\* ------------------------------------------------------------- SpecEvents
\* The campus with an event that starts at instant 2 and allows only LotB.
OneEvent == [e \in EventIds |-> [start_time |-> 2, allowed_parking_lots |-> {"LotB"}]]

InitEvents ==
    /\ Campus
    /\ events = OneEvent
    /\ EmptyTables

SpecEvents == InitEvents /\ [][Next]_vars

\* --------------------------------------------------------------- SpecConc
\* Two workers serve one create_reservation request each.  A worker reads
\* the tables (all guards, lines 34-106), commits the reservation row
\* (lines 108-111) and commits the spot status (lines 113-116); the other
\* worker may run between any two of these.  No lock or SELECT ... FOR
\* UPDATE is taken and the default isolation lets both reads see no row.
cr_check(w, u, s, ev, st, en) ==
    /\ inflight[w] = Idle
    /\ inflight' = [inflight EXCEPT ![w] =
           [pc |-> IF create_reservation_verdict(u, s, ev, st, en).status = 201
                   THEN "insert" ELSE "rejected",
            user_id |-> u, spot_id |-> s, event_id |-> ev,
            start_time |-> st, end_time |-> en]]
    /\ UNCHANGED <<users, zones, spots, events, reservations, sessions, reports, now>>

cr_insert(w) ==
    /\ inflight[w].pc = "insert"
    /\ Len(reservations) < MaxRes
    /\ reservations' = Append(reservations,
           NewReservation(inflight[w].user_id, inflight[w].spot_id, inflight[w].event_id,
                          inflight[w].start_time, inflight[w].end_time))
    /\ inflight' = [inflight EXCEPT ![w].pc = "spot"]
    /\ UNCHANGED <<users, zones, spots, events, sessions, reports, now>>

cr_set_spot(w) ==
    /\ inflight[w].pc = "spot"
    /\ spots' = [spots EXCEPT ![inflight[w].spot_id].status = "occupied"]
    /\ inflight' = [inflight EXCEPT ![w].pc = "created"]
    /\ UNCHANGED <<users, zones, events, reservations, sessions, reports, now>>

NextConc ==
    \/ \E w \in Workers, u \in UserIds, s \in SpotIds, ev \in DOMAIN events \cup {NoEvent},
          st \in Times, en \in Times : cr_check(w, u, s, ev, st, en)
    \/ \E w \in Workers : cr_insert(w)
    \/ \E w \in Workers : cr_set_spot(w)
    \/ CheckInRequest
    \/ Tick

SpecConc == Init /\ [][NextConc]_vars

\* ---------------------------------------------------------------- SpecOps
\* The campus's users and its regular spot s1, with the administrator's
\* spot updates and the external scheduler next to reservation admission and
\* cancellation.  Create requests name existing users and spots and no
\* event; check-in and check-out, which change no reservation and no spot in
\* this build, are left to Spec.
InitOps ==
    /\ users = CampusUsers
    /\ zones = CampusZones
    /\ spots = [s \in {"s1"} |-> CampusSpots[s]]
    /\ events = NoEvents
    /\ EmptyTables

OpsCreateRequest ==
    \E u \in DOMAIN users, s \in DOMAIN spots, st \in Times, en \in Times :
        create_reservation(u, s, NoEvent, st, en)

UpdateSpotRequest ==
    \E s \in DOMAIN spots, status \in SpotStatuses : update_parking_spot(s, status)

SchedulerStep ==
    \E rid \in 1..MaxRes : scheduler_promote(rid) \/ scheduler_complete(rid)

NextOps ==
    \/ OpsCreateRequest
    \/ CancelRequest
    \/ UpdateSpotRequest
    \/ SchedulerStep
    \/ Tick

SpecOps == InitOps /\ [][NextOps]_vars

\* ----------------------------------------------------------- SpecSessions
\* The campus over a parking_sessions table that already holds a row of the
\* admin at spot s1, open (the spot then marked occupied) or closed.  No
\* request served by this build inserts such a row (see
\* sessions_utcnow_raises); it is given, as in a database written to before
\* sessions.py imported the datetime module.
InitSessions ==
    /\ users = CampusUsers
    /\ zones = CampusZones
    /\ events = NoEvents
    /\ reservations = <<>>
    /\ reports = <<>>
    /\ now \in {0, 1}
    /\ inflight = [w \in Workers |-> Idle]
    /\ \E out \in {Null, 0} :
          /\ sessions = <<[user_id |-> "u2", spot_id |-> "s1",
                           check_in_time |-> 0, check_out_time |-> out]>>
          /\ spots = [CampusSpots EXCEPT !["s1"].status =
                          IF out = Null THEN "occupied" ELSE "empty"]

SpecSessions == InitSessions /\ [][Next]_vars

\* --------------------------------------------------------- SpecCancelConc
\* Two workers serve one request each, a cancel or a create, over a campus
\* where the staff user already holds a pending reservation of s1 for [0,1)
\* (the state after one create_reservation from the empty tables).  A cancel
\* commits the status "cancelled" after its guards (lines 123-148), then
\* reads the spot and the other occupancies (lines 151-162), then commits
\* the status "empty" (lines 164-168); the other worker may run between any
\* two of these.  The UPDATE of the spot names the row by its key only.
InitCancelConc ==
    /\ users = CampusUsers
    /\ zones = CampusZones
    /\ events = NoEvents
    /\ spots = [CampusSpots EXCEPT !["s1"].status = "occupied"]
    /\ reservations = <<NewReservation("u1", "s1", NoEvent, 0, 1)>>
    /\ sessions = <<>>
    /\ reports = <<>>
    /\ now = 0
    /\ inflight = [w \in Workers |-> Idle]

cn_commit(w, rid, u) ==
    /\ inflight[w] = Idle
    /\ IF cancel_reservation_verdict(rid, u).status = 200
       THEN /\ reservations' = [reservations EXCEPT ![rid].status = "cancelled"]
            /\ inflight' = [inflight EXCEPT ![w] =
                   [pc |-> "recheck", reservation_id |-> rid,
                    spot_id |-> reservations[rid].spot_id]]
       ELSE /\ inflight' = [inflight EXCEPT ![w] = [pc |-> "rejected"]]
            /\ UNCHANGED reservations
    /\ UNCHANGED <<users, zones, spots, events, sessions, reports, now>>

cn_recheck(w) ==
    /\ inflight[w].pc = "recheck"
    /\ LET s == inflight[w].spot_id IN
       inflight' = [inflight EXCEPT ![w].pc =
           IF /\ s \in DOMAIN spots
              /\ spots[s].status = "occupied"
              /\ ~OtherActiveOccupancies(inflight[w].reservation_id, s)
           THEN "empty" ELSE "cancelled"]
    /\ UNCHANGED <<users, zones, spots, events, reservations, sessions, reports, now>>

cn_set_empty(w) ==
    /\ inflight[w].pc = "empty"
    /\ spots' = [spots EXCEPT ![inflight[w].spot_id].status = "empty"]
    /\ inflight' = [inflight EXCEPT ![w].pc = "cancelled"]
    /\ UNCHANGED <<users, zones, events, reservations, sessions, reports, now>>

NextCancelConc ==
    \/ \E w \in Workers, rid \in 1..MaxRes, u \in UserIds : cn_commit(w, rid, u)
    \/ \E w \in Workers : cn_recheck(w)
    \/ \E w \in Workers : cn_set_empty(w)
    \/ \E w \in Workers, u \in UserIds, s \in SpotIds, st \in Times, en \in Times :
          cr_check(w, u, s, NoEvent, st, en)
    \/ \E w \in Workers : cr_insert(w)
    \/ \E w \in Workers : cr_set_spot(w)
    \/ Tick

SpecCancelConc == InitCancelConc /\ [][NextCancelConc]_vars

\* ================================================================ claims
EvIds == DOMAIN events \cup {NoEvent}
Live(i) == reservations[i].status \in {"pending", "active"}

\* The half-open interval [start_time, end_time) of a row, as a set of instants.
Interval(i) ==
    {x \in 0..(MaxTime + 1) : reservations[i].start_time <= x /\ x < reservations[i].end_time}

\* C1: after any sequence of create-reservation, cancel-reservation,
\* check-in and check-out requests served one at a time, no two distinct
\* pending or active reservations of the same spot have intersecting
\* half-open intervals [start_time, end_time).
C1_LiveReservationsDisjoint ==
    \A i, j \in ResIds :
        (i # j /\ reservations[i].spot_id = reservations[j].spot_id /\ Live(i) /\ Live(j))
            => Interval(i) \cap Interval(j) = {}

\* C1 witness: two live reservations share a spot, the clock has advanced
\* and a check-in has been served (it left its report).
C1_Witness ==
    /\ \E i, j \in ResIds :
          i # j /\ reservations[i].spot_id = reservations[j].spot_id /\ Live(i) /\ Live(j)
    /\ now >= 1
    /\ reports # <<>>

\* C2 (as claimed): two create-reservation requests on the same spot with
\* intersecting windows, served concurrently, are never both admitted.
C2_AtMostOneAdmitted ==
    \A v, w \in Workers :
        ~ /\ v # w
          /\ inflight[v].pc = "created"
          /\ inflight[w].pc = "created"
          /\ inflight[v].spot_id = inflight[w].spot_id
          /\ inflight[v].start_time < inflight[w].end_time
          /\ inflight[w].start_time < inflight[v].end_time

\* C3: after any sequence of requests served one at a time, every user has
\* at most one open session and every spot has at most one open session.
C3_AtMostOneOpenSession ==
    /\ \A u \in UserIds :
          Cardinality({i \in SesIds :
              sessions[i].user_id = u /\ sessions[i].check_out_time = Null}) <= 1
    /\ \A s \in SpotIds :
          Cardinality({i \in SesIds :
              sessions[i].spot_id = s /\ sessions[i].check_out_time = Null}) <= 1

\* C3 witness: a check-in has been served (the student's wrong-zone entry
\* left its report), the admin's check-in on an empty spot is answered 500
\* and no session was opened.
C3_Witness ==
    /\ reports # <<>>
    /\ \E s \in DOMAIN spots :
          spots[s].status = "empty" /\ check_in_verdict("p2", s).status = 500
    /\ sessions = <<>>

\* A create verdict that is none of the failures of the lookup, zone
\* lookup, zone policy, timing and VIP steps.
PassedUpToVip(v) ==
    v.detail \notin {D_USER_OR_SPOT, D_ZONE_MISSING, D_ZONE_FORBIDDEN,
                     D_START_PAST, D_END_BEFORE_START, D_VIP}

\* C4: a create-reservation request that passes the lookup, zone, timing
\* and VIP steps is rejected with Conflict by the overlap step exactly when
\* a pending or active reservation of the spot has start < new.end and
\* end > new.start; a request starting where a reservation ends, and
\* overlapping none, is accepted.
C4_OverlapStep ==
    \A u \in UserIds, s \in SpotIds, ev \in EvIds, st \in Times, en \in Times :
        LET v == create_reservation_verdict(u, s, ev, st, en)
            clash == \E i \in ResIds :
                        /\ reservations[i].spot_id = s
                        /\ Live(i)
                        /\ reservations[i].start_time < en
                        /\ reservations[i].end_time > st
            touches == \E i \in ResIds :
                        /\ reservations[i].spot_id = s
                        /\ Live(i)
                        /\ reservations[i].end_time = st
        IN PassedUpToVip(v) =>
              /\ (v = Verdict(400, D_OVERLAP)) <=> clash
              /\ (touches /\ ~clash /\ OpenSessionsOfSpot(s) = {}) => v.status = 201

\* C4 witness: a reservation was admitted that starts where a live one
\* ends, and a request overlapping a live reservation is answered Conflict.
C4_Witness ==
    /\ \E i, j \in ResIds :
          /\ i < j /\ Live(i) /\ Live(j)
          /\ reservations[i].spot_id = reservations[j].spot_id
          /\ reservations[j].start_time = reservations[i].end_time
    /\ \E u \in UserIds, s \in SpotIds, st \in Times, en \in Times :
          create_reservation_verdict(u, s, NoEvent, st, en) = Verdict(400, D_OVERLAP)

\* The zone rule as claimed: the role is restricted and the zone is neither
\* the role's own nor general.
ZoneRuleRejects(role, zone_type) ==
    role \in {"staff", "student", "visitor"} /\ zone_type \notin {role, "general"}

NoVipRowForNonVip ==
    \A i \in ResIds :
        (reservations[i].spot_id \in DOMAIN spots /\ spots[reservations[i].spot_id].is_vip)
            => users[reservations[i].user_id].role = "vip"

\* C6 (as claimed): no reservation exists on a VIP spot for a non-vip user,
\* and every create request of a non-vip user on a VIP spot is answered
\* Forbidden.
C6_Original ==
    /\ NoVipRowForNonVip
    /\ \A u \in DOMAIN users, s \in DOMAIN spots, ev \in EvIds, st \in Times, en \in Times :
          (spots[s].is_vip /\ users[u].role # "vip")
              => create_reservation_verdict(u, s, ev, st, en).status = 403

\* C6 (amended): no reservation exists on a VIP spot for a non-vip user;
\* every create request of a non-vip user on a VIP spot is rejected, with
\* Forbidden by the VIP check when it passes the lookup, zone and timing
\* steps and with the error of the first of those steps it fails otherwise.
C6_VipGate ==
    /\ NoVipRowForNonVip
    /\ \A u \in DOMAIN users, s \in DOMAIN spots, ev \in EvIds, st \in Times, en \in Times :
          (spots[s].is_vip /\ users[u].role # "vip") =>
              LET v == create_reservation_verdict(u, s, ev, st, en) IN
              /\ v.status # 201
              /\ v.detail \in {D_ZONE_MISSING, D_ZONE_FORBIDDEN, D_START_PAST,
                               D_END_BEFORE_START, D_VIP}
              /\ (v.detail \notin {D_ZONE_MISSING, D_ZONE_FORBIDDEN, D_START_PAST,
                                   D_END_BEFORE_START})
                    => v = Verdict(403, D_VIP)

\* C6 witness: a VIP spot in a general zone and an admin or staff user,
\* whose requests were served: the valid one is answered Forbidden by the
\* VIP check, nothing was stored.
C6_Witness ==
    /\ \E u \in DOMAIN users, s \in DOMAIN spots :
          /\ spots[s].is_vip
          /\ users[u].role \in {"admin", "staff"}
          /\ zones[spots[s].parking_zone_id].zone_type = "general"
          /\ create_reservation_verdict(u, s, NoEvent, 0, 1) = Verdict(403, D_VIP)
          /\ create_reservation_verdict(u, s, NoEvent, 1, 1) = Verdict(400, D_END_BEFORE_START)
    /\ reports # <<>>
    /\ reservations = <<>>

\* The event of a request, when the request is tied to one with a start time.
TiedToEvent(ev) == ev \in DOMAIN events /\ events[ev].start_time # Null

\* C7 (as claimed): a create-reservation request tied to an event is
\* rejected when now is earlier than the event's start minus 30 minutes or
\* the requested start is later than the event's start.
C7_EventWindow ==
    \A u \in UserIds, s \in SpotIds, ev \in EvIds, st \in Times, en \in Times :
        (/\ TiedToEvent(ev)
         /\ \/ now < events[ev].start_time - EVENT_WINDOW
            \/ st > events[ev].start_time)
            => create_reservation_verdict(u, s, ev, st, en).status # 201

\* C8 (as claimed): a create-reservation request tied to an event whose
\* allowed_parking_lots is non-empty is rejected when the spot's lot is not
\* in that list.
C8_ForbiddenLot ==
    \A u \in UserIds, s \in DOMAIN spots, ev \in EvIds, st \in Times, en \in Times :
        (/\ TiedToEvent(ev)
         /\ events[ev].allowed_parking_lots # {}
         /\ spots[s].lot_name \notin events[ev].allowed_parking_lots)
            => create_reservation_verdict(u, s, ev, st, en).status # 201

\* C9 (as claimed): every stored reservation, tied to an event or not, has
\* start_time < end_time.
C9_StartBeforeEnd ==
    \A i \in ResIds : reservations[i].start_time < reservations[i].end_time

\* C10: a create-reservation request without an event that passes the
\* lookup and zone steps is rejected with InvalidWindow exactly when
\* start_time < now or end_time <= start_time; in particular start_time =
\* now with end_time > start_time passes the step.
C10_GeneralWindow ==
    \A u \in UserIds, s \in SpotIds, st \in Times, en \in Times :
        LET v == create_reservation_verdict(u, s, NoEvent, st, en) IN
        v.detail \notin {D_USER_OR_SPOT, D_ZONE_MISSING, D_ZONE_FORBIDDEN} =>
            /\ (v.status = 400 /\ v.detail \in {D_START_PAST, D_END_BEFORE_START})
                  <=> (st < now \/ en <= st)
            /\ (st = now /\ en > st) => v.detail \notin {D_START_PAST, D_END_BEFORE_START}

\* C10 witness: a reservation starting at instant 0 was stored (so it was
\* requested with start_time = now), the clock has advanced, and a request
\* starting in the past is answered InvalidWindow.
C10_Witness ==
    /\ \E i \in ResIds : reservations[i].start_time = 0 /\ reservations[i].event_id = NoEvent
    /\ now >= 1
    /\ \E u \in UserIds, s \in SpotIds :
          create_reservation_verdict(u, s, NoEvent, 0, MaxTime) = Verdict(400, D_START_PAST)

\* A step that adds rows to the reservations table.
RowAdded == Len(reservations') > Len(reservations)

\* C11: every successful create-reservation adds exactly one reservation,
\* with status pending, for the requested user, spot and window, and leaves
\* that spot's status equal to occupied: a step that adds rows adds one
\* pending row, is the create-reservation step of the request that row
\* records, answered 201, and ends with the row's spot occupied and every
\* other spot as it was.
C11_CreateEffect ==
    [][RowAdded =>
          LET r == reservations'[Len(reservations')] IN
          /\ Len(reservations') = Len(reservations) + 1
          /\ SubSeq(reservations', 1, Len(reservations)) = reservations
          /\ r.status = "pending"
          /\ create_reservation_verdict(r.user_id, r.spot_id, r.event_id,
                                        r.start_time, r.end_time).status = 201
          /\ create_reservation(r.user_id, r.spot_id, r.event_id, r.start_time, r.end_time)
          /\ spots'[r.spot_id].status = "occupied"
          /\ \A s \in DOMAIN spots \ {r.spot_id} : spots'[s] = spots[s]
      ]_vars

\* C11 witness: a create request was admitted on a spot that already held a
\* cancelled reservation: the new row is pending and the spot is occupied.
C11_Witness ==
    \E i, j \in ResIds :
        /\ i < j
        /\ reservations[i].spot_id = reservations[j].spot_id
        /\ reservations[i].status = "cancelled"
        /\ reservations[j].status = "pending"
        /\ spots[reservations[j].spot_id].status = "occupied"

\* The plate belongs to no user.
PlateUnknown(lp) == \A u \in DOMAIN users : users[u].license_plate # lp

\* The plate's user, the spot and its zone exist and the zone rule rejects.
ZoneCheckFails(lp, s) ==
    /\ s \in DOMAIN spots
    /\ spots[s].parking_zone_id \in DOMAIN zones
    /\ \E u \in DOMAIN users :
          /\ users[u].license_plate = lp
          /\ ZoneRuleRejects(users[u].role, zones[spots[s].parking_zone_id].zone_type)

PassesZoneSteps(u, s) ==
    /\ u \in DOMAIN users
    /\ s \in DOMAIN spots
    /\ spots[s].parking_zone_id \in DOMAIN zones
    /\ ~ZoneRuleRejects(users[u].role, zones[spots[s].parking_zone_id].zone_type)

\* User u holds an active reservation of spot s whose half-open window
\* covers now.
HoldsCoveringReservation(u, s) ==
    \E i \in ResIds :
        /\ reservations[i].user_id = u
        /\ reservations[i].spot_id = s
        /\ reservations[i].status = "active"
        /\ reservations[i].start_time <= now
        /\ now < reservations[i].end_time

\* C13 (as claimed): a check-in on a spot of type reserved by a user who is
\* not an admin and holds no active reservation of that spot covering now
\* and passes the plate, spot and zone steps, fails with Forbidden.
C13_ReservedSpot ==
    \A u \in DOMAIN users, s \in DOMAIN spots :
        (/\ PassesZoneSteps(u, s)
         /\ spots[s].spot_type = "reserved"
         /\ users[u].role # "admin"
         /\ ~HoldsCoveringReservation(u, s))
            => check_in_verdict(users[u].license_plate, s).status = 403

\* The check-in of user u's vehicle at spot s passes the reserved-spot step.
PassesReservedStep(u, s) ==
    \/ spots[s].spot_type # "reserved"
    \/ users[u].role = "admin"
    \/ HoldsCoveringReservation(u, s)

\* C14 (as claimed): a check-in that passes the plate, spot, zone and
\* reserved-spot steps is rejected with Conflict when the user has an open
\* session, the spot has an open session, or the spot's status is not empty.
C14_CheckInConflict ==
    \A u \in DOMAIN users, s \in DOMAIN spots :
        (/\ PassesZoneSteps(u, s)
         /\ PassesReservedStep(u, s)
         /\ \/ \E i \in SesIds : sessions[i].user_id = u /\ sessions[i].check_out_time = Null
            \/ \E i \in SesIds : sessions[i].spot_id = s /\ sessions[i].check_out_time = Null
            \/ spots[s].status # "empty")
            => check_in_verdict(users[u].license_plate, s).status = 400

\* Session sid exists and is closed; reservation rid exists and is cancelled.
Closed(sid) == sid \in SesIds /\ sessions[sid].check_out_time # Null
Cancelled(rid) == rid \in ResIds /\ reservations[rid].status = "cancelled"

\* User u may cancel reservation rid: its owner or an admin.
MayCancel(rid, u) ==
    u \in DOMAIN users /\ (reservations[rid].user_id = u \/ users[u].role = "admin")

\* C15: check-out of a session that is already closed fails with NotFound,
\* and cancel of a reservation that is already cancelled (asked by its owner
\* or an admin) fails with AlreadyCancelled; such a retry changes no
\* session, reservation or spot, whatever was served since the first call.
C15_Retry ==
    /\ [](/\ \A sid \in 1..MaxSessions :
                Closed(sid) => check_out_verdict(sid) = Verdict(404, D_SESSION_MISSING)
          /\ \A rid \in 1..MaxRes, u \in UserIds :
                (Cancelled(rid) /\ MayCancel(rid, u))
                    => cancel_reservation_verdict(rid, u) = Verdict(400, D_ALREADY_CANCELLED))
    /\ [][(<<sessions, reservations, spots>>' # <<sessions, reservations, spots>>) =>
            /\ \A sid \in 1..MaxSessions : Closed(sid) => ~check_out(sid)
            /\ \A rid \in 1..MaxRes, u \in UserIds :
                  (Cancelled(rid) /\ MayCancel(rid, u)) => ~cancel_reservation(rid, u)
         ]_vars

\* C15 witness: a closed session whose check-out is answered NotFound, and a
\* cancelled reservation next to a later pending reservation of the same
\* spot, whose repeated cancel is answered AlreadyCancelled.
C15_Witness ==
    /\ \E sid \in SesIds : Closed(sid) /\ check_out_verdict(sid).status = 404
    /\ \E i, j \in ResIds :
          /\ i < j
          /\ Cancelled(i)
          /\ reservations[j].spot_id = reservations[i].spot_id
          /\ reservations[j].status = "pending"
          /\ cancel_reservation_verdict(i, reservations[i].user_id).detail = D_ALREADY_CANCELLED

C17_CancelForbidden ==
    /\ [](\A rid \in ResIds, u \in DOMAIN users :
            ~MayCancel(rid, u) => cancel_reservation_verdict(rid, u) = Verdict(403, D_NOT_OWNER))
    /\ [][(<<reservations, spots>>' # <<reservations, spots>>) =>
            \A rid \in ResIds, u \in DOMAIN users :
                ~MayCancel(rid, u) => ~cancel_reservation(rid, u)
         ]_vars

\* C17 witness: a cancelled and an active reservation, neither owned by
\* the staff user or the student asking to cancel it; both are answered
\* Forbidden.
C17_Witness ==
    \E i, j \in ResIds, u \in DOMAIN users :
        /\ reservations[i].status = "cancelled"
        /\ reservations[j].status = "active"
        /\ ~MayCancel(i, u) /\ ~MayCancel(j, u)
        /\ cancel_reservation_verdict(i, u).status = 403
        /\ cancel_reservation_verdict(j, u).status = 403

\* Reservation rid is active and u may cancel it.
ActiveAndMayCancel(rid, u) ==
    rid \in ResIds /\ reservations[rid].status = "active" /\ MayCancel(rid, u)

\* C18: a cancel request by the owner or an admin on an active reservation
\* fails with InvalidState exactly when its start_time is earlier than now,
\* leaving it active; an active reservation whose start_time has not passed
\* is cancelled.
C18_CancelActive ==
    /\ [](\A rid \in 1..MaxRes, u \in UserIds :
            ActiveAndMayCancel(rid, u) =>
                LET v == cancel_reservation_verdict(rid, u) IN
                /\ (v = Verdict(400, D_ALREADY_STARTED)) <=> (reservations[rid].start_time < now)
                /\ (reservations[rid].start_time >= now) => v.status = 200)
    /\ [][(reservations' # reservations) =>
            \A rid \in 1..MaxRes, u \in UserIds :
                (ActiveAndMayCancel(rid, u) /\ cancel_reservation(rid, u)) =>
                    /\ reservations[rid].start_time >= now
                    /\ reservations'[rid].status = "cancelled"
         ]_vars

\* C18 witness: two active reservations, one that started before now, whose
\* cancel is answered InvalidState, and one that starts at now, whose cancel
\* is accepted.
C18_Witness ==
    \E i, j \in ResIds :
        /\ reservations[i].status = "active" /\ reservations[i].start_time < now
        /\ cancel_reservation_verdict(i, reservations[i].user_id) = Verdict(400, D_ALREADY_STARTED)
        /\ reservations[j].status = "active" /\ reservations[j].start_time = now
        /\ cancel_reservation_verdict(j, reservations[j].user_id).status = 200

\* Reservation rid is pending and u may cancel it.
PendingAndMayCancel(rid, u) ==
    rid \in ResIds /\ reservations[rid].status = "pending" /\ MayCancel(rid, u)

\* Reservation rid is the sole occupier of its spot: no other pending or
\* active reservation and no open session is on the spot.
SoleOccupier(rid) ==
    /\ \A i \in ResIds \ {rid} :
          reservations[i].spot_id = reservations[rid].spot_id => ~Live(i)
    /\ \A k \in SesIds :
          sessions[k].spot_id = reservations[rid].spot_id => sessions[k].check_out_time # Null

\* C19 (as claimed): cancelling a pending reservation, asked by its owner or
\* an admin, always succeeds, and if the reservation was the sole occupier
\* of its spot the spot's status is empty afterwards.
C19_Original ==
    /\ [](\A rid \in 1..MaxRes, u \in UserIds :
            PendingAndMayCancel(rid, u) => cancel_reservation_verdict(rid, u).status = 200)
    /\ [][(reservations' # reservations) =>
            \A rid \in 1..MaxRes, u \in UserIds :
                (PendingAndMayCancel(rid, u) /\ cancel_reservation(rid, u)) =>
                    /\ reservations'[rid].status = "cancelled"
                    /\ SoleOccupier(rid) => spots'[reservations[rid].spot_id].status = "empty"
         ]_vars

\* C19 (amended): cancelling a pending reservation, asked by its owner or an
\* admin, always succeeds; if the reservation was the sole occupier of its
\* spot, the spot's status afterwards is empty when it was occupied (or
\* empty) before, and is left as it was (reserved, under_maintenance)
\* otherwise.
C19_CancelPending ==
    /\ [](\A rid \in 1..MaxRes, u \in UserIds :
            PendingAndMayCancel(rid, u) => cancel_reservation_verdict(rid, u).status = 200)
    /\ [][(reservations' # reservations) =>
            \A rid \in 1..MaxRes, u \in UserIds :
                (PendingAndMayCancel(rid, u) /\ cancel_reservation(rid, u)) =>
                    LET s == reservations[rid].spot_id IN
                    /\ reservations'[rid].status = "cancelled"
                    /\ SoleOccupier(rid) =>
                          spots'[s].status =
                              IF spots[s].status \in {"occupied", "empty"}
                              THEN "empty" ELSE spots[s].status
         ]_vars

\* C19 witness: a pending reservation, sole occupier of a spot the
\* administrator marked under_maintenance, next to a reservation cancelled
\* before; its owner's cancel is accepted.
C19_Witness ==
    \E i, j \in ResIds :
        /\ reservations[i].status = "cancelled"
        /\ reservations[j].status = "pending"
        /\ SoleOccupier(j)
        /\ spots[reservations[j].spot_id].status = "under_maintenance"
        /\ cancel_reservation_verdict(j, reservations[j].user_id).status = 200

\* is_spot_free(spot, now) as claimed: no open session, no pending or
\* active reservation with start_time <= now < end_time, and a status that
\* is neither occupied nor under_maintenance.
IsSpotFree(s) ==
    /\ \A k \in SesIds : sessions[k].spot_id = s => sessions[k].check_out_time # Null
    /\ \A i \in ResIds :
          (reservations[i].spot_id = s /\ Live(i))
              => ~(reservations[i].start_time <= now /\ now < reservations[i].end_time)
    /\ spots[s].status \notin {"occupied", "under_maintenance"}

\* C20 (as claimed): list-available-spots at time now returns exactly the
\* spots that are free in this sense.
C20_AvailableSpots ==
    get_available_spots = {s \in DOMAIN spots : IsSpotFree(s)}

\* C21 (as claimed): creating a reservation and setting its spot's status
\* to occupied take effect as one step: no state that another request can
\* read holds a reservation just inserted whose spot is not yet marked
\* occupied.
C21_AtomicCreate ==
    \A i \in ResIds :
        reservations[i].status = "pending" => spots[reservations[i].spot_id].status = "occupied"

\* C22 (as claimed): a reservation becomes cancelled only from pending or
\* active; a completed reservation keeps its status under every cancel
\* request, and a cancelled one stays cancelled.
C22_TerminalStatuses ==
    [][\A rid \in ResIds :
          /\ (reservations'[rid].status = "cancelled" /\ reservations[rid].status # "cancelled")
                => reservations[rid].status \in {"pending", "active"}
          /\ reservations[rid].status \in {"completed", "cancelled"}
                => reservations'[rid].status = reservations[rid].status
      ]_vars

\* The steps of the admission procedure, each as the condition under which
\* it fails for a request (u, s, ev, st, en), stated over the tables.
LookupFails(u, s) == u \notin DOMAIN users \/ s \notin DOMAIN spots
ZoneLookupFails(s) == spots[s].parking_zone_id \notin DOMAIN zones
ZonePolicyFails(u, s) ==
    /\ users[u].role \in {"staff", "student", "visitor"}
    /\ zones[spots[s].parking_zone_id].zone_type \notin {users[u].role, "general"}
TimingFails(ev, st, en) == ev = NoEvent /\ (st < now \/ en <= st)
VipFails(u, s) == spots[s].is_vip /\ users[u].role # "vip"
OverlapFails(s, st, en) ==
    \E i \in ResIds :
        /\ reservations[i].spot_id = s
        /\ Live(i)
        /\ st < reservations[i].end_time
        /\ reservations[i].start_time < en
SessionFails(s) == \E i \in SesIds : sessions[i].spot_id = s /\ sessions[i].check_out_time = Null

\* The answer the admission order prescribes: the failure of the first
\* failing step, as <<status, kind of failure>>.
FirstFailure(u, s, ev, st, en) ==
    IF LookupFails(u, s) THEN <<404, "lookup">>
    ELSE IF ZoneLookupFails(s) THEN <<404, "zone lookup">>
    ELSE IF ZonePolicyFails(u, s) THEN <<403, "zone policy">>
    ELSE IF TimingFails(ev, st, en) THEN <<400, "timing">>
    ELSE IF VipFails(u, s) THEN <<403, "vip">>
    ELSE IF OverlapFails(s, st, en) THEN <<400, "overlap">>
    ELSE IF SessionFails(s) THEN <<400, "open session">>
    ELSE <<201, "none">>

\* The kind of failure a detail message of create_reservation reports.
FailureKind(detail) ==
    CASE detail = D_USER_OR_SPOT -> "lookup"
      [] detail = D_ZONE_MISSING -> "zone lookup"
      [] detail = D_ZONE_FORBIDDEN -> "zone policy"
      [] detail \in {D_START_PAST, D_END_BEFORE_START} -> "timing"
      [] detail = D_VIP -> "vip"
      [] detail = D_OVERLAP -> "overlap"
      [] detail = D_SPOT_SESSION -> "open session"
      [] OTHER -> "none"

\* C23: create-reservation answers with the failure of the first failing
\* step in the order user/spot lookup, zone lookup, zone policy, timing
\* policy, VIP check, overlap check, open-session check, whatever later
\* steps would also fail; it admits the request when no step fails.
\* Requests may name a user or a spot that does not exist.
C23_FirstFailureReported ==
    \A u \in UserIds \cup {"nobody"}, s \in SpotIds \cup {"nowhere"}, ev \in EvIds,
       st \in Times, en \in Times :
        LET v == create_reservation_verdict(u, s, ev, st, en) IN
        <<v.status, FailureKind(v.detail)>> = FirstFailure(u, s, ev, st, en)

\* C23 witness: a spot holds an open session; a request on it that passes
\* every earlier step is answered with the open-session failure, and a
\* request that fails the zone policy as well as the open-session check is
\* answered with the zone failure.
C23_Witness ==
    \E s \in DOMAIN spots, u, w \in DOMAIN users, st \in Times, en \in Times :
        /\ SessionFails(s)
        /\ ~ZonePolicyFails(u, s) /\ ~TimingFails(NoEvent, st, en) /\ ~VipFails(u, s)
        /\ ~OverlapFails(s, st, en)
        /\ create_reservation_verdict(u, s, NoEvent, st, en) = Verdict(400, D_SPOT_SESSION)
        /\ ZonePolicyFails(w, s)
        /\ create_reservation_verdict(w, s, NoEvent, st, en).status = 403

\* Another pending or active reservation of spot s, other than rid, that has
\* not ended, or an open session on s.
OtherOccupancy(rid, s) ==
    \/ \E i \in ResIds \ {rid} :
          reservations[i].spot_id = s /\ Live(i) /\ reservations[i].end_time > now
    \/ SessionFails(s)

\* Reservation rid is cancelled by this step.
CancelledNow(rid) ==
    /\ reservations[rid].status # "cancelled"
    /\ reservations'[rid].status = "cancelled"

\* C24: a successful cancel on a spot whose status was occupied leaves the
\* status empty when no other pending or active reservation with
\* end_time > now and no open session remains on the spot, and occupied
\* otherwise; when the status was not occupied (reserved, empty,
\* under_maintenance) the cancel leaves it as it was.  (No session exists
\* where cancels are served here, so the session half of the condition is
\* always false.)
C24_StatusAfterCancel ==
    [][(reservations' # reservations) =>
          \A rid \in ResIds :
              CancelledNow(rid) =>
                  LET s == reservations[rid].spot_id IN
                  spots'[s].status =
                      IF spots[s].status # "occupied" THEN spots[s].status
                      ELSE IF OtherOccupancy(rid, s) THEN "occupied" ELSE "empty"
      ]_vars

\* C24 witness: a reservation is cancelled, another reservation of the same
\* spot is still pending or active but has ended, and the spot is empty.
C24_Witness ==
    \E rid, i \in ResIds :
        /\ i # rid
        /\ reservations[rid].status = "cancelled"
        /\ reservations[i].spot_id = reservations[rid].spot_id
        /\ Live(i) /\ reservations[i].end_time <= now
        /\ spots[reservations[rid].spot_id].status = "empty"

\* Spot s holds an open session, or a pending or active reservation that
\* has not ended.
HasOccupancy(s) ==
    \/ \E i \in ResIds :
          reservations[i].spot_id = s /\ Live(i) /\ reservations[i].end_time > now
    \/ SessionFails(s)

\* This step is a served create, cancel, check-in or check-out on spot s: it
\* inserts a reservation or a session of s, cancels a reservation of s or
\* closes a session of s.
Touched(s) ==
    \/ /\ Len(reservations') > Len(reservations)
       /\ reservations'[Len(reservations')].spot_id = s
    \/ \E rid \in ResIds : CancelledNow(rid) /\ reservations[rid].spot_id = s
    \/ /\ Len(sessions') > Len(sessions)
       /\ sessions'[Len(sessions')].spot_id = s
    \/ \E i \in SesIds :
          /\ sessions[i].spot_id = s
          /\ sessions[i].check_out_time = Null
          /\ sessions'[i].check_out_time # Null

\* C25 (as claimed): right after a create, cancel, check-in or check-out
\* has been served, a touched spot whose status is occupied holds an open
\* session or a pending or active reservation with end_time > now.
C25_OccupiedHasOccupier ==
    [][(reservations' # reservations \/ sessions' # sessions) =>
          \A s \in DOMAIN spots :
              (Touched(s) /\ spots'[s].status = "occupied") => HasOccupancy(s)'
      ]_vars

\* C26 (as claimed): in every state reached from all spots empty by create,
\* cancel, check-in and check-out requests served one at a time, a spot with
\* an open session has status occupied, and a spot with a pending or active
\* reservation with end_time > now does not have status empty.  (No
\* check-in is ever admitted from all spots empty, see sessions_utcnow_raises,
\* so no session is open in those states.)
C26_StatusReflectsOccupancy ==
    \A s \in DOMAIN spots :
        /\ SessionFails(s) => spots[s].status = "occupied"
        /\ (\E i \in ResIds :
               reservations[i].spot_id = s /\ Live(i) /\ reservations[i].end_time > now)
             => spots[s].status # "empty"

\* C26 witness: a reservation of a spot was cancelled while another
\* reservation of the spot is pending or active and has not ended; the spot
\* is still occupied, and a check-in has been served (it left its report).
C26_Witness ==
    /\ \E rid, i \in ResIds :
          /\ reservations[rid].status = "cancelled"
          /\ reservations[i].spot_id = reservations[rid].spot_id
          /\ Live(i) /\ reservations[i].end_time > now
          /\ spots[reservations[i].spot_id].status = "occupied"
    /\ reports # <<>>

\* Reservation i is pending or active and has not ended.
LiveUnended(i) == Live(i) /\ reservations[i].end_time > now

\* C27: with requests served one at a time, no spot holds an open session
\* together with a pending or active reservation whose window contains now;
\* and while a reservation of a spot is pending or active and has not
\* ended, every check-in on that spot, whatever the vehicle, the
\* reservation's own user included, is rejected.
C27_ReservationBlocksCheckIn ==
    /\ \A i \in ResIds :
          (Live(i) /\ reservations[i].start_time <= now /\ now < reservations[i].end_time)
              => ~SessionFails(reservations[i].spot_id)
    /\ \A i \in ResIds :
          LiveUnended(i) =>
              \A lp \in Plates : check_in_verdict(lp, reservations[i].spot_id).status # 200

\* C27 witness: a pending reservation's window contains now, the check-in
\* of its own user's vehicle on its spot is rejected, and a check-in has
\* been served (it left its report).
C27_Witness ==
    /\ \E i \in ResIds :
          /\ Live(i) /\ reservations[i].start_time <= now /\ now < reservations[i].end_time
          /\ check_in_verdict(users[reservations[i].user_id].license_plate,
                              reservations[i].spot_id).status \notin {0, 200}
    /\ reports # <<>>

\* C28 (as claimed): a spot whose status is under_maintenance keeps that
\* status across every create, cancel, check-in and check-out request that
\* targets it, accepted or rejected (these are the steps that write a
\* reservation or a session, or leave every table as it is).
C28_MaintenanceKept ==
    [][(spots' # spots /\ (reservations' # reservations \/ sessions' # sessions)) =>
          \A s \in DOMAIN spots :
              spots[s].status = "under_maintenance" => spots'[s].status = "under_maintenance"
      ]_vars

\* No worker is in the middle of a request.
Quiescent == \A w \in Workers : inflight[w].pc \in {"idle", "created", "rejected", "cancelled"}

\* C29 (as claimed): when a cancel on a spot is interleaved with a
\* concurrent create on the same spot, the state after both have finished
\* never has the spot's status empty while a pending reservation of the
\* spot with end_time > now exists.
C29_NoLostOccupancy ==
    Quiescent =>
        \A i \in ResIds :
            (reservations[i].status = "pending" /\ reservations[i].end_time > now)
                => spots[reservations[i].spot_id].status # "empty"

\* This step is the serving of some rejected request.
RejectedRequestStep ==
    \/ \E u \in UserIds, s \in SpotIds, ev \in EvIds, st \in Times, en \in Times :
          /\ create_reservation(u, s, ev, st, en)
          /\ create_reservation_verdict(u, s, ev, st, en).status # 201
    \/ \E rid \in 1..MaxRes, u \in UserIds :
          /\ cancel_reservation(rid, u)
          /\ cancel_reservation_verdict(rid, u).status # 200
    \/ \E lp \in Plates, s \in SpotIds :
          /\ check_in(lp, s)
          /\ check_in_verdict(lp, s).status # 200
    \/ \E sid \in 1..MaxSessions :
          /\ check_out(sid)
          /\ check_out_verdict(sid).status # 200

\* This step is the serving of a rejected check-in.
RejectedCheckInStep ==
    \E lp \in Plates, s \in SpotIds :
        check_in(lp, s) /\ check_in_verdict(lp, s).status # 200

\* C30: a rejected create, cancel, check-in or check-out leaves the
\* reservations, the sessions and every spot's status as they were; the one
\* thing a rejected request may add is a Report, and only a check-in adds
\* one.  Stated over steps: a step that changes reservations, sessions or
\* spots is not the serving of a rejected request, and a step that adds a
\* report is a rejected check-in that changes none of the three.
C30_RejectedFrame ==
    [][/\ (reservations' # reservations \/ sessions' # sessions \/ spots' # spots)
            => ~RejectedRequestStep
       /\ (reports' # reports)
            => /\ UNCHANGED <<reservations, sessions, spots>>
               /\ RejectedCheckInStep
      ]_vars

\* C30 witness: a rejected check-in has left its report, a reservation has
\* been admitted, and in this state a create, a cancel and a check-out
\* would each be rejected.
C30_Witness ==
    /\ reports # <<>>
    /\ reservations # <<>>
    /\ \E u \in UserIds, s \in SpotIds, st \in Times, en \in Times :
          create_reservation_verdict(u, s, NoEvent, st, en).status # 201
    /\ \E rid \in ResIds, u \in UserIds : cancel_reservation_verdict(rid, u).status # 200
    /\ \E sid \in SesIds : check_out_verdict(sid).status # 200

====
